---- MODULE Spec2Model ----
(***************************************************************************)
(* Model of eensight.workflow.steps._base.WorkflowStep: the construction   *)
(* of a step (binding resolution, defaulting, tracking validation) and     *)
(* its three lifecycle hooks.                                              *)
(*                                                                         *)
(* Python values are represented as follows.  An optional argument is a    *)
(* tuple: None is << >> and a supplied value v is <<v>>.  A dict is a      *)
(* function whose domain is its key set.  A str is a TLA+ string and an    *)
(* f-string over strs is concatenation.                                    *)
(***************************************************************************)
EXTENDS Integers, Sequences, FiniteSets, TLC

VARIABLES cls, args, phase, self, raised, calls

vars == <<cls, args, phase, self, raised, calls>>

(* Longest recorded history of hook invocations on one instance. *)
MaxCalls == 2

None == << >>

Some(v) == <<v>>

EmptyDict == [k \in {} |-> ""]

(* ---------------------------------------------------------------------- *)
(* Step types: subclasses of WorkflowStep.  Each declares its class-level  *)
(* default lists and whether it overrides execute; a type that overrides   *)
(* execute may still delegate to the base body through super().            *)
(* ---------------------------------------------------------------------- *)
StepTypes ==
    { [name |-> "CleanStep", default_requires |-> <<"meter_data">>,
       default_provides |-> <<"clean_data">>,
       overridesExecute |-> TRUE, delegates |-> FALSE],
      [name |-> "BareStep", default_requires |-> << >>,
       default_provides |-> << >>,
       overridesExecute |-> TRUE, delegates |-> TRUE],
      [name |-> "StubStep", default_requires |-> <<"meter_data", "weather">>,
       default_provides |-> <<"clean_data">>,
       overridesExecute |-> FALSE, delegates |-> FALSE] }

RequiresArgs == {None, Some(EmptyDict), Some([k \in {"raw"} |-> "sensor_feed"])}

ProvidesArgs == {None, Some(EmptyDict), Some([k \in {"out"} |-> "result"])}

StageArgs == {None, Some(""), Some("train"), Some("val")}

RebindArgs == {None, Some(EmptyDict), Some([k \in {"ts"} |-> "timestamp"])}

RunIdArgs == {None, Some(""), Some("abc")}

TrackingUriArgs == {None, Some("file:mlruns")}

ExperimentArgs == {None, Some(""), Some("exp1")}

TagsArgs == {None, Some(EmptyDict), Some([k \in {"owner"} |-> "ops"])}

ArgSets ==
    [catalog : {"catalog"}, parameters : {"parameters"}, name : {None},
     requires : RequiresArgs, provides : ProvidesArgs, ml_stage : StageArgs,
     rebind : RebindArgs, run_id : RunIdArgs, tracking_uri : TrackingUriArgs,
     experiment_name : ExperimentArgs, tags : TagsArgs]

(* ---------------------------------------------------------------------- *)
(* Python truthiness of an optional dict and of an optional str: None, {}  *)
(* and "" are falsy.                                                       *)
(* ---------------------------------------------------------------------- *)
TruthyDict(opt) == opt # None /\ DOMAIN opt[1] # {}

TruthyStr(opt) == opt # None /\ opt[1] # ""

Range(seq) == {seq[i] : i \in DOMAIN seq}

(* {val: val for val in defaults} *)
IdentityDict(defaults) == [val \in Range(defaults) |-> val]

(* {key: f'{val}_{ml_stage}' for key, val in d.items()} *)
SuffixValues(d, stage) == [key \in DOMAIN d |-> d[key] \o "_" \o stage]

SuffixValuesTwice(d, stage) == SuffixValues(SuffixValues(d, stage), stage)

ResolveBindingNoIdentity(explicit, defaults, ml_stage) ==
    LET base == IF ~TruthyDict(explicit) THEN [val \in Range(defaults) |-> ""]
                ELSE explicit[1]
    IN  IF TruthyStr(ml_stage) THEN SuffixValues(base, ml_stage[1]) ELSE base

ResolveBindingSuffixTwice(explicit, defaults, ml_stage) ==
    LET base == IF ~TruthyDict(explicit) THEN IdentityDict(defaults)
                ELSE explicit[1]
    IN  IF TruthyStr(ml_stage) THEN SuffixValuesTwice(base, ml_stage[1]) ELSE base

(* The binding of one side: `if not requires: ...; if ml_stage: ...` *)
ResolveBinding(explicit, defaults, ml_stage) ==
    LET base == IF ~TruthyDict(explicit) THEN IdentityDict(defaults)
                ELSE explicit[1]
    IN  IF TruthyStr(ml_stage) THEN SuffixValues(base, ml_stage[1]) ELSE base

DefaultAlways(arg, dflt) == dflt

(* `x if x is not None else dflt` *)
DefaultIfNone(arg, dflt) == IF arg # None THEN arg[1] ELSE dflt

TrackingInvalidEitherMissing(run_id, tracking_uri) ==
    (run_id # None) # (tracking_uri # None)

(* `(run_id is not None) and (tracking_uri is None)` *)
TrackingInvalid(run_id, tracking_uri) == run_id # None /\ tracking_uri = None

(* ---------------------------------------------------------------------- *)
(* Exceptions: the kind raised and the class the message names.            *)
(* ---------------------------------------------------------------------- *)
NoError == [kind |-> "None", names |-> ""]

TrackingErrorConfiguration == [kind |-> "ConfigurationError", names |-> ""]

(* raise ValueError('If tracking is enabled, ...') *)
TrackingError == [kind |-> "ValueError", names |-> ""]

(* The exception classes an except clause may name to catch `kind`. *)
Bases(kind) ==
    {kind, "Exception", "BaseException"}
        \cup (IF kind = "NotImplementedError" THEN {"RuntimeError"} ELSE {})

CaughtBy(handler, err) == err # NoError /\ handler \in Bases(err.kind)

Unassigned == [a \in {} |-> ""]

AttributeNames ==
    {"catalog", "parameters", "name", "requires", "provides", "ml_stage",
     "rebind", "run_id", "tracking_uri", "experiment_name", "tags"}

(* The locals of __init__ as they stand when the assignments to self start *)
Locals(c, a) ==
    [catalog |-> a.catalog, parameters |-> a.parameters, name |-> a.name,
     requires |-> ResolveBinding(a.requires, c.default_requires, a.ml_stage),
     provides |-> ResolveBinding(a.provides, c.default_provides, a.ml_stage),
     ml_stage |-> a.ml_stage,
     rebind |-> DefaultIfNone(a.rebind, EmptyDict),
     run_id |-> a.run_id, tracking_uri |-> a.tracking_uri,
     experiment_name |-> DefaultIfNone(a.experiment_name, "Default"),
     tags |-> DefaultIfNone(a.tags, EmptyDict)]

WorkflowStep_init_AssignFirst(c, a) ==
    IF TrackingInvalid(a.run_id, a.tracking_uri)
    THEN [self |-> Locals(c, a), raised |-> TrackingError]
    ELSE [self |-> Locals(c, a), raised |-> NoError]

(* WorkflowStep.__init__: the raise precedes every assignment to self *)
WorkflowStep_init(c, a) ==
    IF TrackingInvalid(a.run_id, a.tracking_uri)
    THEN [self |-> Unassigned, raised |-> TrackingError]
    ELSE [self |-> Locals(c, a), raised |-> NoError]

InstantiableAlways(c) == TRUE

(* abc.ABC with @abc.abstractmethod on execute: a class can be             *)
(* instantiated only if it overrides every abstract method.                *)
Instantiable(c) == c.overridesExecute

AbstractError(c) == [kind |-> "TypeError", names |-> c.name]

(* WorkflowStep.execute body *)
WorkflowStep_execute(c) == [kind |-> "NotImplementedError", names |-> c.name]

pre_execute_ClearsBindings(s) == [s EXCEPT !.requires = EmptyDict]

(* WorkflowStep.pre_execute: pass *)
pre_execute(s) == s

(* WorkflowStep.post_execute: pass *)
post_execute(s) == s

LifecycleAdmitsInOrder(hook, history) ==
    \A i \in DOMAIN history :
        \/ history[i] = "pre_execute" /\ hook # "pre_execute"
        \/ history[i] = "execute" /\ hook = "post_execute"

(* No hook reads or writes any lifecycle state: every call is admitted. *)
LifecycleAdmits(hook, history) == TRUE

(* ---------------------------------------------------------------------- *)
(* State machine                                                           *)
(* ---------------------------------------------------------------------- *)
Init ==
    /\ cls \in StepTypes
    /\ args \in ArgSets
    /\ phase = "new"
    /\ self = Unassigned
    /\ raised = NoError
    /\ calls = << >>

(* Instantiating cls with args: the abstract-method check, then __init__ *)
Construct ==
    /\ phase = "new"
    /\ IF ~Instantiable(cls)
       THEN /\ phase' = "failed"
            /\ self' = Unassigned
            /\ raised' = AbstractError(cls)
       ELSE LET r == WorkflowStep_init(cls, args)
            IN  /\ phase' = IF r.raised = NoError THEN "constructed" ELSE "failed"
                /\ self' = r.self
                /\ raised' = r.raised
    /\ UNCHANGED <<cls, args, calls>>

PreExecute ==
    /\ phase = "constructed"
    /\ Len(calls) < MaxCalls
    /\ LifecycleAdmits("pre_execute", calls)
    /\ self' = pre_execute(self)
    /\ raised' = NoError
    /\ calls' = Append(calls, "pre_execute")
    /\ UNCHANGED <<cls, args, phase>>

(* step.execute(): the base body runs when the type does not override      *)
(* execute or when its override delegates to super().execute()             *)
Execute ==
    /\ phase = "constructed"
    /\ Len(calls) < MaxCalls
    /\ LifecycleAdmits("execute", calls)
    /\ raised' = IF ~cls.overridesExecute \/ cls.delegates
                 THEN WorkflowStep_execute(cls) ELSE NoError
    /\ calls' = Append(calls, "execute")
    /\ UNCHANGED <<cls, args, phase, self>>

PostExecute ==
    /\ phase = "constructed"
    /\ Len(calls) < MaxCalls
    /\ LifecycleAdmits("post_execute", calls)
    /\ self' = post_execute(self)
    /\ raised' = NoError
    /\ calls' = Append(calls, "post_execute")
    /\ UNCHANGED <<cls, args, phase>>

Next == Construct \/ PreExecute \/ Execute \/ PostExecute

Spec == Init /\ [][Next]_vars

(* ---------------------------------------------------------------------- *)
(* Properties                                                              *)
(* ---------------------------------------------------------------------- *)
RunIdSetUriUnset == args.run_id # None /\ args.tracking_uri = None

(* The base dataset name behind logical key k: the explicit override value *)
(* when the supplied mapping has the key, the default name otherwise.      *)
BaseName(explicit, k) ==
    IF explicit # None /\ k \in DOMAIN explicit[1] THEN explicit[1][k] ELSE k

(* C1: for an instantiable step type, construction fails exactly when      *)
(* run_id is set and tracking_uri is not; every other combination of       *)
(* run_id and tracking_uri succeeds, whatever the other arguments are.     *)
C1_FailsIffRunIdWithoutUri ==
    (phase # "new" /\ cls.overridesExecute) =>
        /\ (phase = "failed") <=> RunIdSetUriUnset
        /\ (phase = "failed") => raised # NoError
        /\ (phase = "constructed" /\ calls = << >>) => raised = NoError

C1_Witness ==
    /\ phase = "failed" /\ cls.overridesExecute
    /\ args.run_id = Some("abc") /\ args.tracking_uri = None
    /\ raised # NoError

(* C2: whenever an explicit requires (provides) mapping is supplied, an    *)
(* empty one included, the key set of the resulting requires (provides)    *)
(* is exactly the key set of the supplied mapping.                         *)
C2_ExplicitMappingKeysKept ==
    phase = "constructed" =>
        /\ args.requires # None => DOMAIN self.requires = DOMAIN args.requires[1]
        /\ args.provides # None => DOMAIN self.provides = DOMAIN args.provides[1]

(* C3 as stated: whenever ml_stage is supplied, every value of requires    *)
(* and provides is the base name with _<ml_stage> appended once, and the   *)
(* keys are those of the construction without ml_stage.                    *)
C3_SuffixWheneverStageSupplied ==
    (phase = "constructed" /\ args.ml_stage # None) =>
        /\ \A k \in DOMAIN self.requires :
               self.requires[k] = BaseName(args.requires, k) \o "_" \o args.ml_stage[1]
        /\ \A k \in DOMAIN self.provides :
               self.provides[k] = BaseName(args.provides, k) \o "_" \o args.ml_stage[1]
        /\ DOMAIN self.requires
               = DOMAIN ResolveBinding(args.requires, cls.default_requires, None)
        /\ DOMAIN self.provides
               = DOMAIN ResolveBinding(args.provides, cls.default_provides, None)

(* C3 amended: when ml_stage is a non-empty label, every value of requires *)
(* and provides is the base name with _<ml_stage> appended once; when      *)
(* ml_stage is the empty string the values are the bare base names; in     *)
(* both cases the keys are those of the construction without ml_stage.     *)
C3_SuffixWhenStageNonEmpty ==
    (phase = "constructed" /\ args.ml_stage # None) =>
        LET stage == args.ml_stage[1]
            suffix == IF stage = "" THEN "" ELSE "_" \o stage
        IN  /\ \A k \in DOMAIN self.requires :
                   self.requires[k] = BaseName(args.requires, k) \o suffix
            /\ \A k \in DOMAIN self.provides :
                   self.provides[k] = BaseName(args.provides, k) \o suffix
            /\ DOMAIN self.requires
                   = DOMAIN ResolveBinding(args.requires, cls.default_requires, None)
            /\ DOMAIN self.provides
                   = DOMAIN ResolveBinding(args.provides, cls.default_provides, None)

C3_Witness ==
    /\ phase = "constructed" /\ args.ml_stage = Some("train")
    /\ args.requires = Some([k \in {"raw"} |-> "sensor_feed"])
    /\ self.requires = [k \in {"raw"} |-> "sensor_feed_train"]
    /\ args.provides = None /\ cls.name = "CleanStep"
    /\ self.provides = [k \in {"clean_data"} |-> "clean_data_train"]

(* C4: a step type with non-empty default lists, constructed without       *)
(* explicit requires/provides and with ml_stage None, has requires and     *)
(* provides equal to the identity mappings over its default lists.         *)
C4_DefaultsGiveIdentity ==
    ( /\ phase = "constructed"
      /\ args.requires = None /\ args.provides = None /\ args.ml_stage = None
      /\ cls.default_requires # << >> /\ cls.default_provides # << >> ) =>
        /\ DOMAIN self.requires = Range(cls.default_requires)
        /\ \A k \in DOMAIN self.requires : self.requires[k] = k
        /\ DOMAIN self.provides = Range(cls.default_provides)
        /\ \A k \in DOMAIN self.provides : self.provides[k] = k

C4_Witness ==
    /\ phase = "constructed" /\ cls.name = "CleanStep"
    /\ args.requires = None /\ args.provides = None /\ args.ml_stage = None
    /\ self.requires = [k \in {"meter_data"} |-> "meter_data"]
    /\ self.provides = [k \in {"clean_data"} |-> "clean_data"]

(* C5 as stated: a step type that does not override execute can be         *)
(* constructed (given a valid tracking configuration); it fails only when  *)
(* execute is called.                                                      *)
C5_NonOverridingTypeConstructs ==
    (phase # "new" /\ ~cls.overridesExecute /\ ~RunIdSetUriUnset) =>
        phase = "constructed"

(* C5 amended: a step type that does not override execute is never         *)
(* constructed: instantiation fails with a TypeError naming the type and   *)
(* assigns no attribute.  A NotImplementedError is raised only by a call   *)
(* of execute that reaches the base body, and it names the concrete type.  *)
C5_NonOverridingTypeNotInstantiable ==
    /\ (phase # "new" /\ ~cls.overridesExecute) =>
           /\ phase = "failed"
           /\ raised.kind = "TypeError" /\ raised.names = cls.name
           /\ self = Unassigned /\ calls = << >>
    /\ raised.kind = "NotImplementedError" =>
           /\ phase = "constructed"
           /\ calls # << >> /\ calls[Len(calls)] = "execute"
           /\ raised.names = cls.name

C5_Witness ==
    /\ phase = "failed" /\ ~cls.overridesExecute /\ ~RunIdSetUriUnset
    /\ raised.kind = "TypeError"

(* C6: rebind, tags and experiment_name hold the default (empty mapping,   *)
(* empty mapping, "Default") when the argument is omitted, and hold the    *)
(* supplied value unchanged whenever one is supplied, falsy ones included. *)
C6_DefaultOnlyWhenOmitted ==
    phase = "constructed" =>
        /\ args.rebind = None => self.rebind = EmptyDict
        /\ args.rebind # None => self.rebind = args.rebind[1]
        /\ args.tags = None => self.tags = EmptyDict
        /\ args.tags # None => self.tags = args.tags[1]
        /\ args.experiment_name = None => self.experiment_name = "Default"
        /\ args.experiment_name # None =>
               self.experiment_name = args.experiment_name[1]

C6_Witness ==
    /\ phase = "constructed"
    /\ args.experiment_name = Some("") /\ self.experiment_name = ""
    /\ args.rebind = Some(EmptyDict) /\ self.rebind = EmptyDict
    /\ args.tags = None /\ self.tags = EmptyDict

(* C7: when construction fails on the tracking validation, none of the     *)
(* instance attributes has been assigned and no hook has run.              *)
C7_NoAttributeOnTrackingFailure ==
    (phase = "failed" /\ cls.overridesExecute /\ RunIdSetUriUnset) =>
        /\ DOMAIN self \cap AttributeNames = {}
        /\ calls = << >>

C7_Witness ==
    /\ phase = "failed" /\ cls.overridesExecute /\ RunIdSetUriUnset
    /\ raised.kind # "None" /\ DOMAIN self = {}

(* C8 as stated: the error raised by the tracking validation is caught by  *)
(* a handler for ConfigurationError.                                       *)
C8_RaisesConfigurationError ==
    (phase = "failed" /\ cls.overridesExecute /\ RunIdSetUriUnset) =>
        CaughtBy("ConfigurationError", raised)

(* C8 amended: the error raised by the tracking validation is a            *)
(* ValueError: a handler for ValueError catches it and a handler for       *)
(* ConfigurationError does not.                                            *)
C8_RaisesValueError ==
    (phase = "failed" /\ cls.overridesExecute /\ RunIdSetUriUnset) =>
        /\ CaughtBy("ValueError", raised)
        /\ ~CaughtBy("ConfigurationError", raised)

C8_Witness ==
    /\ phase = "failed" /\ cls.overridesExecute
    /\ args.run_id = Some("") /\ args.tracking_uri = None
    /\ raised.kind = "ValueError"

BaseHookCalled ==
    \/ calls' = Append(calls, "pre_execute")
    \/ calls' = Append(calls, "post_execute")

(* C9: every call of the base pre_execute or post_execute, in any order    *)
(* and after any history, returns without an error and leaves every        *)
(* attribute of the step unchanged.                                        *)
C9_BaseHooksAreNoOps ==
    [][BaseHookCalled => (self' = self /\ raised' = NoError)]_vars

C9_Witness ==
    /\ phase = "constructed"
    /\ calls = <<"post_execute", "pre_execute">>
    /\ self.requires = [k \in {"meter_data"} |-> "meter_data_val"]
    /\ raised = NoError

Rank(hook) ==
    CASE hook = "pre_execute" -> 1
      [] hook = "execute" -> 2
      [] hook = "post_execute" -> 3

====
